---- MODULE Spec2Model ----
(***************************************************************************)
(* Model of generation_cartes.py: the coastal seeding mask, the particle   *)
(* seeder, the GibraltarWall kernel and the capture-analysis loop.         *)
(*                                                                         *)
(* Units.  Longitudes and latitudes are integers in tenths of a degree     *)
(* (-5.8 is -58, 42.5 is 425).  Times and days are integers in days: the   *)
(* script's conversion ((time - time[0,0]) / 1e9) / 86400 is modelled on   *)
(* whole days, where it is the subtraction.  A floating-point NaN is the   *)
(* value NaN below; every comparison with it is FALSE, as in IEEE 754.     *)
(***************************************************************************)
EXTENDS Integers, Sequences, FiniteSets, TLC

VARIABLES
    \* ---- section 2, SIMULATION: the coastal mask (lines 55-67)
    uo_sample,          \* line 55: the first velocity snapshot, cell -> value
    iterations,         \* the iterations argument of line 61
    mask_land,          \* line 59, as the set of its True cells
    mask_land_dilated,  \* line 61
    mask_coastal,       \* line 62
    valid,              \* lines 63 and 67: the sequence of <<y, x>> cells
    pcMask,             \* "land" | "dilate" | "coastal" | "filter" | "done"
    \* ---- section 2: the seeder (lines 69-77)
    n_valid,            \* len(valid_y) at line 69
    NB_PARTICLES,       \* line 32
    indices,            \* line 69
    pset,               \* lines 75-77: the candidate of every particle
    pcSeed,             \* "choose" | "pset" | "done"
    \* ---- section 2: the kernel GibraltarWall (lines 43-46)
    released,           \* the particle as it was released
    particle,           \* [lon, lat, depth], the particle now
    before,             \* the particle as the last kernel call received it
    calls,              \* the number of kernel calls made on the particle
    \* ---- section 3, ANALYSE (lines 90-112)
    AMP_BOX,        \* the capture box (line 31)
    n_part,         \* lon_traj.shape[0]
    n_steps,        \* lon_traj.shape[1]
    lon_traj,       \* lon_traj[p]: the samples of particle p read so far
    lat_traj,       \* lat_traj[p]
    time_vals,      \* time_vals[p]
    t,              \* the loop variable of line 102
    captured_ids,   \* line 97
    curve,          \* line 98
    t_axis,         \* line 99
    pc              \* "loop" | "done": position in the loop of line 102

analysisVars ==
    <<AMP_BOX, n_part, n_steps, lon_traj, lat_traj, time_vals, t,
      captured_ids, curve, t_axis, pc>>

maskVars ==
    <<uo_sample, iterations, mask_land, mask_land_dilated, mask_coastal, valid, pcMask>>

seedVars == <<n_valid, NB_PARTICLES, indices, pset, pcSeed>>

wallVars == <<released, particle, before, calls>>

vars == <<maskVars, seedVars, wallVars, analysisVars>>

----------------------------------------------------------------------------
(* Floating point *)

NaN == -99999

isnan(x) == x = NaN

\* x >= y and x <= y on floats: FALSE as soon as one side is NaN
Ge(x, y) == ~isnan(x) /\ ~isnan(y) /\ x >= y
Le(x, y) == ~isnan(x) /\ ~isnan(y) /\ x <= y

\* x - y on floats: NaN as soon as one side is NaN
Sub(x, y) == IF isnan(x) \/ isnan(y) THEN NaN ELSE x - y

----------------------------------------------------------------------------
(* Bounds and input alphabets of the analysis *)

MaxSteps == 3

\* AMP_BOX of line 31, and the box [0,1]x[0,1] of the documented scenario
AMP_BOX_CONFIG == [lon_min |-> 42, lon_max |-> 52, lat_min |-> 425, lat_max |-> 432]
ScenarioBox == [lon_min |-> 0, lon_max |-> 10, lat_min |-> 0, lat_max |-> 10]
Boxes == {AMP_BOX_CONFIG, ScenarioBox}

\* The threshold of line 106
MATURATION_DAY == 30

\* Times (in days) an output step may carry
DefTimes == {0, 30, 60}

Lost == <<NaN, NaN>>

\* Positions <<lon, lat>> a sample of particle p may hold: a point of the box
\* lying on two of its edges, a point one tenth of a degree outside of it, and
\* the undefined position.  Even and odd particles take opposite corners, so
\* that the four edges are met.  In the scenario's box particle 0 takes the
\* scenario's two points.
Positions(box, p) ==
    IF p % 2 = 1
    THEN {<<box.lon_max, box.lat_min>>, <<box.lon_min - 1, box.lat_min>>, Lost}
    ELSE IF box = ScenarioBox
         THEN {<<5, 5>>, <<50, 50>>, Lost}
         ELSE {<<box.lon_min, box.lat_max>>, <<box.lon_max, box.lat_max + 1>>, Lost}

Particles == 0 .. (n_part - 1)

\* One output step of the store: the step's time and every particle's
\* position.  A particle that left the run has NaN lon, lat and time.
Columns ==
    {c \in [time : DefTimes, pos : [Particles -> UNION {Positions(AMP_BOX, p) : p \in Particles}]] :
        \A p \in Particles : c.pos[p] \in Positions(AMP_BOX, p)}

----------------------------------------------------------------------------
(* Section 3: ANALYSE *)

\* line 94: days_traj[p, s], s counted from 0
days_traj(tv, p, s) == Sub(tv[p][s + 1], tv[0][1])

\* Variant: the four bounds excluded
InBoxStrict(lon, lat) ==
    /\ ~isnan(lon) /\ ~isnan(lat)
    /\ lon > AMP_BOX.lon_min /\ lon < AMP_BOX.lon_max
    /\ lat > AMP_BOX.lat_min /\ lat < AMP_BOX.lat_max

\* lines 107-108: the box test of one sample
InBox(lon, lat) ==
    /\ Ge(lon, AMP_BOX.lon_min) /\ Le(lon, AMP_BOX.lon_max)
    /\ Ge(lat, AMP_BOX.lat_min) /\ Le(lat, AMP_BOX.lat_max)

\* np.where(in_box)[0] over column s of the arrays lo, la
in_box(lo, la, s) == {p \in Particles : InBox(lo[p][s + 1], la[p][s + 1])}

\* Variant: day 30 itself not yet mature
MatureStrict(day) == ~isnan(day) /\ day > MATURATION_DAY

\* line 106
Mature(day) == Ge(day, MATURATION_DAY)

\* Variant: the set assigned instead of updated
UpdateReplace(ids, day, lo, la, s) ==
    IF Mature(day) THEN in_box(lo, la, s) ELSE ids

\* lines 106-109: captured_ids after the step
Update(ids, day, lo, la, s) ==
    IF Mature(day) THEN ids \cup in_box(lo, la, s) ELSE ids

\* Variant: the day taken from any particle whose time is defined
StepDayOwn(tv, s) ==
    IF \E p \in Particles : ~isnan(days_traj(tv, p, s))
    THEN days_traj(tv, CHOOSE p \in Particles : ~isnan(days_traj(tv, p, s)), s)
    ELSE NaN

\* line 103: the day of step s is read from row 0
StepDay(tv, s) == days_traj(tv, 0, s)

\* Variant: no stop test
StopNever(tv, s) == FALSE

\* line 104: the stop test
Stop(tv, s) == isnan(StepDay(tv, s))

\* The store's column t, read by the loop body (lines 91-93: the arrays)
ReadColumn(col) ==
    /\ lon_traj' = [p \in Particles |-> Append(lon_traj[p], col.pos[p][1])]
    /\ lat_traj' = [p \in Particles |-> Append(lat_traj[p], col.pos[p][2])]
    /\ time_vals' = [p \in Particles |->
            Append(time_vals[p], IF col.pos[p] = Lost THEN NaN ELSE col.time)]

InitAnalysis ==
    /\ AMP_BOX \in Boxes
    /\ n_part \in {1, 2}
    /\ n_steps \in 1 .. MaxSteps
    /\ lon_traj = [p \in Particles |-> <<>>]
    /\ lat_traj = [p \in Particles |-> <<>>]
    /\ time_vals = [p \in Particles |-> <<>>]
    /\ t = 0
    /\ captured_ids = {}
    /\ curve = <<>>
    /\ t_axis = <<>>
    /\ pc = "loop"

\* lines 102-112, one iteration that reaches line 112
LoopBody ==
    /\ pc = "loop"
    /\ t < n_steps
    /\ \E col \in Columns :
        /\ ReadColumn(col)
        /\ ~Stop(time_vals', t)
        /\ captured_ids' =
              Update(captured_ids, StepDay(time_vals', t), lon_traj', lat_traj', t)
        /\ curve' = Append(curve, Cardinality(captured_ids'))
        /\ t_axis' = Append(t_axis, StepDay(time_vals', t))
    /\ t' = t + 1
    /\ UNCHANGED <<AMP_BOX, n_part, n_steps, pc>>

\* lines 102-104, the iteration that breaks
LoopBreak ==
    /\ pc = "loop"
    /\ t < n_steps
    /\ \E col \in Columns :
        /\ ReadColumn(col)
        /\ Stop(time_vals', t)
    /\ pc' = "done"
    /\ UNCHANGED <<AMP_BOX, n_part, n_steps, t, captured_ids, curve, t_axis>>

\* line 102: range(n_steps) is exhausted
LoopEnd ==
    /\ pc = "loop"
    /\ t = n_steps
    /\ pc' = "done"
    /\ UNCHANGED <<AMP_BOX, n_part, n_steps, lon_traj, lat_traj, time_vals, t,
                   captured_ids, curve, t_axis>>

\* The analysis before the store is opened
IdleAnalysis ==
    /\ AMP_BOX = AMP_BOX_CONFIG
    /\ n_part = 0
    /\ n_steps = 0
    /\ lon_traj = <<>>
    /\ lat_traj = <<>>
    /\ time_vals = <<>>
    /\ t = 0
    /\ captured_ids = {}
    /\ curve = <<>>
    /\ t_axis = <<>>
    /\ pc = "idle"

----------------------------------------------------------------------------
(* Section 2: the coastal mask, lines 55-67 *)

GridRows == 2
GridCols == 4

Cells == (0 .. (GridRows - 1)) \X (0 .. (GridCols - 1))

\* line 59: the sentinel 1e10, scaled to TLC's 32-bit integers
LAND_SENTINEL == 1000000000

\* line 66: the cutoff -5.5
ATLANTIC_CUTOFF == -55

\* line 52: the longitude axis, half a degree per column, starting on the
\* cutoff so that column 0 shows the comparison of line 66 to be strict
lons_array == [x \in 0 .. (GridCols - 1) |-> ATLANTIC_CUTOFF + 5 * x]

\* The snapshot whose land cells are the set L.  A land cell holds NaN, a
\* fill value above the sentinel or 0, by its place; a sea cell holds 1 or -1.
Snapshot(L) ==
    [c \in Cells |->
        IF c \in L
        THEN CASE (c[1] + c[2]) % 3 = 0 -> NaN
               [] (c[1] + c[2]) % 3 = 1 -> LAND_SENTINEL + 1
               [] OTHER -> 0
        ELSE IF (c[1] + c[2]) % 2 = 0 THEN 1 ELSE -1]

\* line 59
IsLand(u) == isnan(u) \/ (~isnan(u) /\ u > LAND_SENTINEL) \/ u = 0

\* line 60: generate_binary_structure(2, 2), the offsets of the 3x3 square
struct == (-1 .. 1) \X (-1 .. 1)

\* One dilation of the set S by struct, cells outside the grid being False
Dilate1(S) ==
    {c \in Cells : \E d \in struct : <<c[1] + d[1], c[2] + d[2]>> \in S}

RECURSIVE DilateN(_, _)
DilateN(S, k) == IF k <= 0 THEN S ELSE DilateN(Dilate1(S), k - 1)

RECURSIVE DilateFix(_)
DilateFix(S) == IF Dilate1(S) = S THEN S ELSE DilateFix(Dilate1(S))

\* Variant: the repeat-until-stable rule taken for k <= 1
binary_dilation_early(S, k) == IF k <= 1 THEN DilateFix(S) ELSE DilateN(S, k)

\* line 61: ndimage.binary_dilation(S, structure=struct, iterations=k).  The
\* dilation is repeated k times; with k < 1 it is repeated until the result
\* no longer changes.
binary_dilation(S, k) == IF k < 1 THEN DilateFix(S) ELSE DilateN(S, k)

\* Variant: the land cells not removed
CoastalNoLandTest(dilated, land) == dilated

\* line 62
Coastal(dilated, land) == dilated \ land

\* line 63: np.where lists the True cells in row-major order
RECURSIVE WhereFrom(_, _)
WhereFrom(S, i) ==
    IF i >= GridRows * GridCols THEN <<>>
    ELSE LET c == <<i \div GridCols, i % GridCols>>
         IN  (IF c \in S THEN <<c>> ELSE <<>>) \o WhereFrom(S, i + 1)

where(S) == WhereFrom(S, 0)

\* line 66
Safe(c) == lons_array[c[2]] > ATLANTIC_CUTOFF

\* line 61: the iteration count of the script
ITERATIONS == 4

InitMask ==
    /\ uo_sample \in {Snapshot(L) : L \in SUBSET Cells}
    /\ iterations \in 0 .. ITERATIONS
    /\ mask_land = {}
    /\ mask_land_dilated = {}
    /\ mask_coastal = {}
    /\ valid = <<>>
    /\ pcMask = "land"

IdleMask ==
    /\ uo_sample = <<>>
    /\ iterations = ITERATIONS
    /\ mask_land = {}
    /\ mask_land_dilated = {}
    /\ mask_coastal = {}
    /\ valid = <<>>
    /\ pcMask = "idle"

\* line 59
LandMask ==
    /\ pcMask = "land"
    /\ mask_land' = {c \in Cells : IsLand(uo_sample[c])}
    /\ pcMask' = "dilate"
    /\ UNCHANGED <<uo_sample, iterations, mask_land_dilated, mask_coastal, valid>>

\* lines 60-61
DilateLand ==
    /\ pcMask = "dilate"
    /\ mask_land_dilated' = binary_dilation(mask_land, iterations)
    /\ pcMask' = "coastal"
    /\ UNCHANGED <<uo_sample, iterations, mask_land, mask_coastal, valid>>

\* lines 62-63
CoastalBand ==
    /\ pcMask = "coastal"
    /\ mask_coastal' = Coastal(mask_land_dilated, mask_land)
    /\ valid' = where(mask_coastal')
    /\ pcMask' = "filter"
    /\ UNCHANGED <<uo_sample, iterations, mask_land, mask_land_dilated>>

\* lines 66-67
SafeFilter ==
    /\ pcMask = "filter"
    /\ valid' = SelectSeq(valid, Safe)
    /\ pcMask' = "done"
    /\ UNCHANGED <<uo_sample, iterations, mask_land, mask_land_dilated, mask_coastal>>

----------------------------------------------------------------------------
(* Section 2: the seeder, lines 69-77 *)

MaxCandidates == 5
MaxRequested == 3

Injective(f) == \A i, j \in DOMAIN f : f[i] = f[j] => i = j

\* np.arange(n)
arange(n) == [i \in 1 .. n |-> i - 1]

\* Variant: replace=True
random_choice_replace(n, size) == [1 .. size -> 0 .. (n - 1)]

\* np.random.choice(n, size, replace=False): the arrays it may return
random_choice(n, size) == {f \in [1 .. size -> 0 .. (n - 1)] : Injective(f)}

\* line 69: the values indices may take
Draws(n, requested) ==
    IF n > requested THEN random_choice(n, requested) ELSE {arange(n)}

InitSeed ==
    /\ n_valid \in 0 .. MaxCandidates
    /\ NB_PARTICLES \in 0 .. MaxRequested
    /\ indices = <<>>
    /\ pset = <<>>
    /\ pcSeed = "choose"

IdleSeed ==
    /\ n_valid = 0
    /\ NB_PARTICLES = 0
    /\ indices = <<>>
    /\ pset = <<>>
    /\ pcSeed = "idle"

\* line 69
ChooseIndices ==
    /\ pcSeed = "choose"
    /\ indices' \in Draws(n_valid, NB_PARTICLES)
    /\ pcSeed' = "pset"
    /\ UNCHANGED <<n_valid, NB_PARTICLES, pset>>

\* lines 75-77: one particle per entry of indices, at that candidate
FromList ==
    /\ pcSeed = "pset"
    /\ pset' = [i \in 1 .. Len(indices) |-> indices[i]]
    /\ pcSeed' = "done"
    /\ UNCHANGED <<n_valid, NB_PARTICLES, indices>>

----------------------------------------------------------------------------
(* Section 2: the kernel GibraltarWall, lines 43-46 *)

\* lines 45-46: the limit -5.8
WEST_LIMIT == -58

LonSpan == 4
MaxCalls == 2

\* Variant: the particle pushed east by a tenth of a degree instead of set on the limit
GibraltarWallShift(p) ==
    IF p.lon < WEST_LIMIT THEN [p EXCEPT !.lon = p.lon + 1] ELSE p

\* lines 43-46
GibraltarWall(p) ==
    IF p.lon < WEST_LIMIT THEN [p EXCEPT !.lon = WEST_LIMIT] ELSE p

InitWall ==
    /\ released \in [lon : (WEST_LIMIT - LonSpan) .. (WEST_LIMIT + LonSpan),
                     lat : {350, 360, 425},
                     depth : {1, 5}]
    /\ particle = released
    /\ before = released
    /\ calls = 0

IdleWall ==
    /\ released = [lon |-> 0, lat |-> 0, depth |-> 0]
    /\ particle = released
    /\ before = released
    /\ calls = 0

\* One call of the kernel on the particle
CallWall ==
    /\ calls < MaxCalls
    /\ before' = particle
    /\ particle' = GibraltarWall(particle)
    /\ calls' = calls + 1
    /\ UNCHANGED released

----------------------------------------------------------------------------
(* Specifications *)

\* The capture analysis
Init == IdleMask /\ IdleSeed /\ IdleWall /\ InitAnalysis

Next ==
    \/ LoopBody /\ UNCHANGED <<maskVars, seedVars, wallVars>>
    \/ LoopBreak /\ UNCHANGED <<maskVars, seedVars, wallVars>>
    \/ LoopEnd /\ UNCHANGED <<maskVars, seedVars, wallVars>>

Spec == Init /\ [][Next]_vars

\* The coastal mask
InitM == InitMask /\ IdleSeed /\ IdleWall /\ IdleAnalysis

NextM ==
    \/ LandMask /\ UNCHANGED <<seedVars, wallVars, analysisVars>>
    \/ DilateLand /\ UNCHANGED <<seedVars, wallVars, analysisVars>>
    \/ CoastalBand /\ UNCHANGED <<seedVars, wallVars, analysisVars>>
    \/ SafeFilter /\ UNCHANGED <<seedVars, wallVars, analysisVars>>

SpecMask == InitM /\ [][NextM]_vars

\* The seeder
InitS == IdleMask /\ InitSeed /\ IdleWall /\ IdleAnalysis

NextS ==
    \/ ChooseIndices /\ UNCHANGED <<maskVars, wallVars, analysisVars>>
    \/ FromList /\ UNCHANGED <<maskVars, wallVars, analysisVars>>

SpecSeed == InitS /\ [][NextS]_vars

\* The kernel
InitW == IdleMask /\ IdleSeed /\ InitWall /\ IdleAnalysis

NextW == CallWall /\ UNCHANGED <<maskVars, seedVars, analysisVars>>

SpecWall == InitW /\ [][NextW]_vars

----------------------------------------------------------------------------
(* The claims.  Their statements are written on the stored arrays and on   *)
(* the velocity snapshot themselves, not with the operators of the model.  *)

\* The columns of the store read so far
Read == IF n_part > 0 THEN Len(time_vals[0]) ELSE 0

\* The day of step s (from 0), as particle 0's row gives it
DayDefined(s) == time_vals[0][s + 1] # NaN /\ time_vals[0][1] # NaN
DayAt(s) == time_vals[0][s + 1] - time_vals[0][1]

\* Particle p's sample of step s lies in the box, bounds included
Inside(p, s) ==
    /\ lon_traj[p][s + 1] # NaN /\ lat_traj[p][s + 1] # NaN
    /\ AMP_BOX.lon_min <= lon_traj[p][s + 1] /\ lon_traj[p][s + 1] <= AMP_BOX.lon_max
    /\ AMP_BOX.lat_min <= lat_traj[p][s + 1] /\ lat_traj[p][s + 1] <= AMP_BOX.lat_max

Qualifies(p, s) == DayDefined(s) /\ DayAt(s) >= 30 /\ Inside(p, s)

\* The particles with a qualifying sample among the steps 0 .. k-1
CapturedBy(k) == {p \in Particles : \E s \in 0 .. (k - 1) : Qualifies(p, s)}

\* C1: over the loop the CaptureSet only grows (every step leaves it a
\* superset of what it was: no particle index is removed), and the recorded
\* cumulative counts curve[0], curve[1], ... are non-decreasing.
C1_CaptureSetOnlyGrows ==
    /\ [][captured_ids \subseteq captured_ids']_vars
    /\ [](\A i \in 1 .. (Len(curve) - 1) : curve[i] <= curve[i + 1])

\* C1's case: a captured particle whose sample at the last processed step, a
\* mature one, is outside the box, after the count has grown.
C1_Witness ==
    /\ t >= 2
    /\ curve[1] < curve[t]
    /\ DayAt(t - 1) >= 30
    /\ \E p \in captured_ids : ~Inside(p, t - 1)

\* C2: a particle is in the CaptureSet exactly when a processed step with
\* day >= 30 holds a position of it inside the box, the four bounds
\* included; so a particle inside the box only before day 30, or whose
\* position is undefined, is not captured by those steps.
C2_CapturedIffMatureInside ==
    pc \in {"loop", "done"} => captured_ids = CapturedBy(t)

\* C2's case: at the end, particle 0 is captured, and particle 1 is not, having
\* been inside the box before day 30 and undefined at a processed mature step.
C2_Witness ==
    /\ pc = "done"
    /\ n_part = 2
    /\ 0 \in captured_ids
    /\ 1 \notin captured_ids
    /\ \E s \in 0 .. (t - 1) : Inside(1, s) /\ DayAt(s) < 30
    /\ \E s \in 0 .. (t - 1) : DayAt(s) >= 30 /\ lon_traj[1][s + 1] = NaN

\* The scenario: one particle, box [0,1]x[0,1], the trajectory
\* (day 0, (5,5)), (day 30, (0.5,0.5)), (day 60, (0.5,0.5)), wholly processed
ScenarioDone ==
    /\ AMP_BOX = ScenarioBox
    /\ n_part = 1
    /\ t = 3
    /\ time_vals = [p \in {0} |-> <<0, 30, 60>>]
    /\ lon_traj = [p \in {0} |-> <<50, 5, 5>>]
    /\ lat_traj = [p \in {0} |-> <<50, 5, 5>>]

\* C3: the curve has one point per processed step, in step order, steps
\* before day 30 included: point s is (day(s), size of the CaptureSet after
\* step s), a step of day exactly 30 counting; and the scenario yields the
\* curve [(0,0), (30,1), (60,1)] and the CaptureSet {0}.
C3_CurvePointPerStep ==
    pc \in {"loop", "done"} =>
        /\ Len(curve) = t
        /\ Len(t_axis) = t
        /\ \A s \in 0 .. (t - 1) :
              /\ t_axis[s + 1] = DayAt(s)
              /\ curve[s + 1] = Cardinality(CapturedBy(s + 1))
        /\ ScenarioDone =>
              /\ t_axis = <<0, 30, 60>>
              /\ curve = <<0, 1, 1>>
              /\ captured_ids = {0}

\* C3's case: the scenario has been processed.
C3_Witness == ScenarioDone /\ pc = "done"

\* C4, as claimed: every processed step has a defined day, greater than the
\* day of the step before it (the pass stops at the first step that has not).
C4_StopsAtNonMonotonicDay ==
    \A s \in 0 .. (t - 1) :
        DayDefined(s) /\ (s > 0 => DayAt(s) > DayAt(s - 1))

\* C4, amended: a step whose day is undefined stops the pass there (no
\* curve point for it, the CaptureSet as the steps before it left it, no
\* later step read); an early stop has no other cause; nothing follows it.
C4_StopsAtUndefinedDay ==
    /\ [](pc \in {"loop", "done"} =>
            /\ Read <= t + 1
            /\ \A s \in 0 .. (Read - 1) :
                  ~DayDefined(s) =>
                      /\ pc = "done" /\ s = t
                      /\ Len(curve) = s /\ Len(t_axis) = s
                      /\ captured_ids = CapturedBy(s)
            /\ (pc = "done" /\ t < n_steps) => (Read = t + 1 /\ ~DayDefined(t)))
    /\ [][pc = "loop"]_vars

\* C4's case: the pass has stopped on an undefined day after a processed
\* step, with a step of the store left unread.
C4_Witness ==
    /\ pc = "done"
    /\ t >= 1
    /\ t + 1 < n_steps
    /\ Read = t + 1
    /\ ~DayDefined(t)
    /\ Len(curve) = t

\* C10: the processed steps are exactly those before the first step at which
\* particle 0's time is undefined; the curve has that many points; the days
\* are particle 0's; no particle is captured by the stopping step or a later
\* one, whatever its own time and position.
C10_DayFromParticleZero ==
    pc \in {"loop", "done"} =>
        /\ \A s \in 0 .. (t - 1) : time_vals[0][s + 1] # NaN
        /\ Read > t => (time_vals[0][t + 1] = NaN /\ pc = "done")
        /\ pc = "done" => (t = n_steps \/ Read > t)
        /\ Len(curve) = t
        /\ \A s \in 0 .. (t - 1) : t_axis[s + 1] = time_vals[0][s + 1] - time_vals[0][1]
        /\ \A p \in captured_ids :
              \E s \in 0 .. (t - 1) :
                  Inside(p, s) /\ time_vals[0][s + 1] - time_vals[0][1] >= 30

\* C10's case: the pass stopped on particle 0's undefined time at a step where
\* particle 1, of defined time and position, is inside the box at its own
\* day >= 30, and particle 1 is not captured.
C10_Witness ==
    /\ pc = "done"
    /\ n_part = 2
    /\ Read = t + 1
    /\ time_vals[0][t + 1] = NaN
    /\ time_vals[1][1] # NaN /\ time_vals[1][t + 1] # NaN
    /\ time_vals[1][t + 1] - time_vals[1][1] >= 30
    /\ Inside(1, t)
    /\ 1 \notin captured_ids

Min(a, b) == IF a <= b THEN a ELSE b

\* C5: the seeder selects exactly min(N, P) candidate indices, all distinct,
\* all in [0, P); with P <= N every candidate is used exactly once; and there
\* is one particle per selected index.
C5_SeederSelectsMinDistinct ==
    pcSeed \in {"pset", "done"} =>
        /\ Len(indices) = Min(NB_PARTICLES, n_valid)
        /\ \A i \in 1 .. Len(indices) : indices[i] \in 0 .. (n_valid - 1)
        /\ \A i, j \in 1 .. Len(indices) : i # j => indices[i] # indices[j]
        /\ n_valid <= NB_PARTICLES =>
              {indices[i] : i \in 1 .. Len(indices)} = 0 .. (n_valid - 1)
        /\ pcSeed = "done" => Len(pset) = Min(NB_PARTICLES, n_valid)

\* C5's case: more particles requested than there are candidates.
C5_Witness ==
    /\ pcSeed = "done"
    /\ n_valid >= 2
    /\ n_valid < NB_PARTICLES
    /\ Len(pset) = n_valid

\* A land value: undefined, above the sentinel, or exactly zero
LandValue(u) == u = NaN \/ u > 1000000000 \/ u = 0

\* C7: no cell of the coastal band is a land cell of the snapshot, and every
\* seed candidate is a cell of the band, so not a land cell.
C7_CoastalBandDisjointFromLand ==
    pcMask \in {"filter", "done"} =>
        /\ \A c \in mask_coastal : ~LandValue(uo_sample[c])
        /\ \A c \in Cells : LandValue(uo_sample[c]) => c \notin mask_coastal
        /\ \A i \in 1 .. Len(valid) :
              valid[i] \in mask_coastal /\ ~LandValue(uo_sample[valid[i]])

\* C7's case: the script's four iterations, on a snapshot with land, have
\* left seed candidates.
C7_Witness ==
    /\ pcMask = "done"
    /\ iterations = 4
    /\ mask_land # {}
    /\ Len(valid) >= 2

\* The coastal band of the land mask with k iterations
BandWith(k) == Coastal(binary_dilation(mask_land, k), mask_land)

\* C8, as claimed: for all iteration counts k <= k' the band with k
\* iterations is a subset of the band with k' iterations.
C8_BandMonotoneFromZero ==
    pcMask \in {"filter", "done"} =>
        \A k \in iterations .. ITERATIONS : mask_coastal \subseteq BandWith(k)

\* C8, amended: the same for 1 <= k <= k'.
C8_BandMonotoneFromOne ==
    (pcMask \in {"filter", "done"} /\ iterations >= 1) =>
        \A k \in iterations .. ITERATIONS : mask_coastal \subseteq BandWith(k)

\* C8's case: a non-empty band that a larger iteration count strictly grows.
C8_Witness ==
    /\ pcMask = "done"
    /\ iterations >= 1
    /\ mask_coastal # {}
    /\ \E k \in (iterations + 1) .. ITERATIONS :
          mask_coastal # BandWith(k) /\ BandWith(k) # BandWith(ITERATIONS)

\* C9: after one call of the clamp the longitude is >= -5.8, a longitude
\* already >= -5.8 is unchanged, latitude and depth are unchanged; a second
\* call in sequence changes nothing.
C9_WallIdempotent ==
    /\ calls >= 1 =>
          /\ particle.lon >= -58
          /\ before.lon >= -58 => particle.lon = before.lon
          /\ particle.lat = before.lat /\ particle.lat = released.lat
          /\ particle.depth = before.depth /\ particle.depth = released.depth
    /\ calls >= 2 => particle = before

\* C9's case: a particle released west of the limit, after two calls.
C9_Witness ==
    /\ calls = 2
    /\ released.lon < -58
    /\ particle.lon = -58

====
